---------------------------- MODULE Spec2Model ----------------------------
(***************************************************************************)
(* Model of script/scrape_twitter_txt_epub.py: the conversion of a file of *)
(* tab-separated direct messages (time, name, text) to markdown and, via   *)
(* pandoc, to an e-book.                                                   *)
(*                                                                         *)
(* A Python str is a sequence of one-character strings, so that slices,    *)
(* split, strip, replace and the url regular expression are computed on    *)
(* characters as the code computes them.  Python's None is the value None. *)
(***************************************************************************)
EXTENDS Integers, Sequences, FiniteSets, TLC

VARIABLES
    args,           \* the parsed command line (argparse namespace)
    f,              \* the lines of the message file, as the iteration yields them
    pos,            \* number of lines the loop of convert_dm_text_markdown has taken
    out,            \* the blocks written to the markdown file, in order
    md,             \* the markdown file: "absent", "open" or "closed"
    stderr,         \* the raw lines reported on sys.stderr, in order
    last_time,      \* module globals of the script
    last_year,
    last_mnth,
    last_date,
    css_name_dict,  \* module global: sender name -> css class
    pc,             \* position of the run
    exc,            \* the exception that ended the run, or None
    pandoc,         \* the pandoc processes started: what each found, its status
    exit_status,    \* <<status>> once the script has exited, <<>> before
    text_in,        \* a message text, and to_text applied to it once and twice
    text_once,
    text_twice

vars == <<args, f, pos, out, md, stderr, last_time, last_year, last_mnth,
          last_date, css_name_dict, pc, exc, pandoc, exit_status,
          text_in, text_once, text_twice>>

-----------------------------------------------------------------------------
(* Bounds of the model *)

MaxLines == 3       \* longest message file
MaxPieces == 3      \* longest message text of SpecText, in pieces
MaxRuns == 2        \* most calls of convert_dm_text_epub in one process
MaxRunLines == 2    \* longest message file of SpecRuns

-----------------------------------------------------------------------------
(* Python values *)

None == <<"None">>

TAB == "\t"
NL == "\n"
BS == "\\"
SP == " "

Whitespace == {SP, TAB, NL}

DigitChars == <<"0", "1", "2", "3", "4", "5", "6", "7", "8", "9">>

IsDigit(c) == \E k \in 1..10 : DigitChars[k] = c

DigitVal(c) == (CHOOSE k \in 1..10 : DigitChars[k] = c) - 1

\* s[i:j] with 0 <= i, j: Python's slice, clipped to the string
Slice(s, i, j) ==
    LET hi == IF j < Len(s) THEN j ELSE Len(s)
    IN  IF i >= hi THEN <<>> ELSE SubSeq(s, i + 1, hi)

\* whether pattern p occurs in s at (0-based) offset i
OccursAt(s, p, i) == i + Len(p) <= Len(s) /\ SubSeq(s, i + 1, i + Len(p)) = p

\* s.replace(p, r), from offset i on: leftmost occurrences, not overlapping
RECURSIVE ReplaceFrom(_, _, _, _)
ReplaceFrom(s, p, r, i) ==
    IF i >= Len(s) THEN <<>>
    ELSE IF OccursAt(s, p, i) THEN r \o ReplaceFrom(s, p, r, i + Len(p))
    ELSE <<s[i + 1]>> \o ReplaceFrom(s, p, r, i + 1)

Replace(s, p, r) == ReplaceFrom(s, p, r, 0)

\* s.strip()
RECURSIVE LStrip(_)
LStrip(s) == IF s # <<>> /\ Head(s) \in Whitespace THEN LStrip(Tail(s)) ELSE s

RECURSIVE RStrip(_)
RStrip(s) ==
    IF s # <<>> /\ s[Len(s)] \in Whitespace
    THEN RStrip(SubSeq(s, 1, Len(s) - 1)) ELSE s

Strip(s) == RStrip(LStrip(s))

\* s.split(sep) for a one-character separator: the list of fields
RECURSIVE SplitFrom(_, _, _, _)
SplitFrom(s, sep, i, cur) ==
    IF i > Len(s) THEN <<cur>>
    ELSE IF s[i] = sep THEN <<cur>> \o SplitFrom(s, sep, i + 1, <<>>)
    ELSE SplitFrom(s, sep, i + 1, Append(cur, s[i]))

Split(s, sep) == SplitFrom(s, sep, 1, <<>>)

-----------------------------------------------------------------------------
(* Exceptions: a function that raises returns the exception's value *)

ValueError == <<"ValueError">>
TypeError == <<"TypeError">>
FileNotFoundError == <<"FileNotFoundError">>

IsExc(v) == v \in {ValueError, TypeError, FileNotFoundError}

-----------------------------------------------------------------------------
(* datetime.fromisoformat and strftime, as to_date uses them *)

AllDigits(s) == \A k \in 1..Len(s) : IsDigit(s[k])

RECURSIVE Num(_)
Num(s) == IF s = <<>> THEN 0
          ELSE 10 * Num(SubSeq(s, 1, Len(s) - 1)) + DigitVal(s[Len(s)])

IsLeap(y) == (y % 4 = 0) /\ ((y % 100 # 0) \/ (y % 400 = 0))

DaysInMonth(y, m) ==
    IF m = 2 THEN (IF IsLeap(y) THEN 29 ELSE 28)
    ELSE IF m \in {4, 6, 9, 11} THEN 30 ELSE 31

RECURSIVE DaysBeforeMonth(_, _)
DaysBeforeMonth(y, m) ==
    IF m = 1 THEN 0 ELSE DaysBeforeMonth(y, m - 1) + DaysInMonth(y, m - 1)

\* date.toordinal(): 1 for 0001-01-01
Ordinal(y, m, d) ==
    LET p == y - 1
    IN  365 * p + (p \div 4) - (p \div 100) + (p \div 400)
          + DaysBeforeMonth(y, m) + d

\* date.weekday(): 0 for Monday
Weekday(y, m, d) == (Ordinal(y, m, d) + 6) % 7

\* The isoformat strings the model parses: YYYY-MM-DD, alone or followed by
\* one separator character and HH:MM, HH:MM:SS, HH:MM:SS.fff or
\* HH:MM:SS.ffffff.  Any other string is an invalid isoformat string.
IsoShape(s) ==
    /\ Len(s) \in {10, 16, 19, 23, 26}
    /\ AllDigits(Slice(s, 0, 4)) /\ s[5] = "-"
    /\ AllDigits(Slice(s, 5, 7)) /\ s[8] = "-"
    /\ AllDigits(Slice(s, 8, 10))
    /\ Len(s) >= 16 =>
          AllDigits(Slice(s, 11, 13)) /\ s[14] = ":" /\ AllDigits(Slice(s, 14, 16))
    /\ Len(s) >= 19 => s[17] = ":" /\ AllDigits(Slice(s, 17, 19))
    /\ Len(s) >= 23 => s[20] = "." /\ AllDigits(Slice(s, 20, Len(s)))

\* fromisoformat without the check of the day against the month
fromisoformat_any_day(s) ==
    IF ~IsoShape(s) THEN [ok |-> FALSE]
    ELSE [ok |-> TRUE, year |-> Num(Slice(s, 0, 4)),
          month |-> Num(Slice(s, 5, 7)), day |-> Num(Slice(s, 8, 10)),
          hour |-> Num(Slice(s, 11, 13)), minute |-> Num(Slice(s, 14, 16))]

\* datetime.fromisoformat(s): the fields strftime reads; ok is FALSE where
\* fromisoformat raises ValueError
fromisoformat(s) ==
    IF ~IsoShape(s) THEN [ok |-> FALSE]
    ELSE LET y == Num(Slice(s, 0, 4))
             m == Num(Slice(s, 5, 7))
             d == Num(Slice(s, 8, 10))
             hh == IF Len(s) >= 16 THEN Num(Slice(s, 11, 13)) ELSE 0
             mi == IF Len(s) >= 16 THEN Num(Slice(s, 14, 16)) ELSE 0
             ss == IF Len(s) >= 19 THEN Num(Slice(s, 17, 19)) ELSE 0
         IN  IF /\ y >= 1 /\ m \in 1..12
                /\ d >= 1 /\ d <= DaysInMonth(y, m)
                /\ hh <= 23 /\ mi <= 59 /\ ss <= 59
             THEN [ok |-> TRUE, year |-> y, month |-> m, day |-> d,
                   hour |-> hh, minute |-> mi]
             ELSE [ok |-> FALSE]

DayAbbr ==
    << <<"M", "o", "n">>, <<"T", "u", "e">>, <<"W", "e", "d">>, <<"T", "h", "u">>,
       <<"F", "r", "i">>, <<"S", "a", "t">>, <<"S", "u", "n">> >>

MonthAbbr ==
    << <<"J", "a", "n">>, <<"F", "e", "b">>, <<"M", "a", "r">>, <<"A", "p", "r">>,
       <<"M", "a", "y">>, <<"J", "u", "n">>, <<"J", "u", "l">>, <<"A", "u", "g">>,
       <<"S", "e", "p">>, <<"O", "c", "t">>, <<"N", "o", "v">>, <<"D", "e", "c">> >>

\* %d, %H, %M: two digits
Pad2(n) == <<DigitChars[(n \div 10) + 1], DigitChars[(n % 10) + 1]>>

\* %Y: the year in decimal, not padded (glibc)
RECURSIVE Decimal(_)
Decimal(n) == IF n < 10 THEN <<DigitChars[n + 1]>>
              ELSE Decimal(n \div 10) \o <<DigitChars[(n % 10) + 1]>>

\* dt.strftime('%a %d %b %Y %H:%M')
strftime(dt) ==
    DayAbbr[Weekday(dt.year, dt.month, dt.day) + 1] \o <<SP>> \o Pad2(dt.day)
      \o <<SP>> \o MonthAbbr[dt.month] \o <<SP>> \o Decimal(dt.year)
      \o <<SP>> \o Pad2(dt.hour) \o <<":">> \o Pad2(dt.minute)

\* to_date: '2019-05-08T08:27:07.472Z' to 'Wed 08 May 2019 08:27'
to_date(time) ==
    IF time = None THEN TypeError
    ELSE LET dt == fromisoformat(Slice(time, 0, Len(time) - 1))
         IN  IF dt.ok THEN strftime(dt) ELSE ValueError

NBSP == <<"&", "n", "b", "s", "p", ";">>

\* "<span class=datesmall>" and "</span>"
SpanDateSmall ==
    <<"<", "s", "p", "a", "n", " ", "c", "l", "a", "s", "s", "=", "d",
    "a", "t", "e", "s", "m", "a", "l", "l", ">">>

SpanEnd == <<"<", "/", "s", "p", "a", "n", ">">>

\* to_small_date: the date with its spaces made non-breaking, in a span
to_small_date(time) ==
    LET d == to_date(time)
    IN  IF IsExc(d) THEN d
        ELSE SpanDateSmall \o Replace(d, <<SP>>, NBSP) \o SpanEnd

\* to_year_only: '2019-05-08T08:27:07.472Z' to '2019'
to_year_only(time) == IF time = None THEN TypeError ELSE Slice(time, 0, 4)

\* to_month_only: '2019-05-08T08:27:07.472Z' to 'May'
to_month_only(time) ==
    LET d == to_date(time) IN IF IsExc(d) THEN d ELSE Slice(d, 7, 10)

\* to_date_only: '2019-05-08T08:27:07.472Z' to 'Wed 08 May 2019'
to_date_only(time) ==
    LET d == to_date(time) IN IF IsExc(d) THEN d ELSE Slice(d, 0, 15)

-----------------------------------------------------------------------------
(* to_link and to_text *)

\* [^\.\s]
NonDotSpace(c) == c # "." /\ c \notin Whitespace

\* the number of [^\.\s] characters of s from offset i on
RECURSIVE RunLen(_, _)
RunLen(s, i) ==
    IF i < Len(s) /\ NonDotSpace(s[i + 1]) THEN 1 + RunLen(s, i + 1) ELSE 0

\* urlfinder = (http([^\.\s]+\.[^\.\s]*)+[^\.\s]{2,}), matched as the
\* backtracking matcher does: each repetition greedy, the longest first, one
\* character given back at a time.  A match is the offset where it ends; no
\* match is -1.

\* [^\.\s]{2,} at offset i, the end of the pattern
MatchTail(s, i) == IF RunLen(s, i) >= 2 THEN i + RunLen(s, i) ELSE -1

RECURSIVE MatchGroup(_, _, _)
RECURSIVE MatchStar(_, _, _)
RECURSIVE MatchRest(_, _)

\* one ([^\.\s]+\.[^\.\s]*) at offset i, its [^\.\s]+ holding k characters
MatchGroup(s, i, k) ==
    IF k = 0 THEN -1
    ELSE LET r == IF i + k < Len(s) /\ s[i + k + 1] = "."
                  THEN MatchStar(s, i + k + 1, RunLen(s, i + k + 1))
                  ELSE -1
         IN  IF r # -1 THEN r ELSE MatchGroup(s, i, k - 1)

\* after the dot at offset j - 1, [^\.\s]* holding m characters
MatchStar(s, j, m) ==
    LET r == MatchRest(s, j + m)
    IN  IF r # -1 THEN r
        ELSE IF m = 0 THEN -1 ELSE MatchStar(s, j, m - 1)

\* after one group: another group, or else the end of the pattern
MatchRest(s, p) ==
    LET g == MatchGroup(s, p, RunLen(s, p))
    IN  IF g # -1 THEN g ELSE MatchTail(s, p)

HTTP == <<"h", "t", "t", "p">>

\* urlfinder.match(s, i)
MatchAt(s, i) ==
    IF OccursAt(s, HTTP, i) THEN MatchGroup(s, i + 4, RunLen(s, i + 4)) ELSE -1

\* urlfinder.sub(r'[\1](\1)', s), from offset i on
RECURSIVE SubFrom(_, _)
SubFrom(s, i) ==
    IF i >= Len(s) THEN <<>>
    ELSE LET e == MatchAt(s, i)
         IN  IF e # -1
             THEN LET url == SubSeq(s, i + 1, e)
                  IN  <<"[">> \o url \o <<"]", "(">> \o url \o <<")">>
                        \o SubFrom(s, e)
             ELSE <<s[i + 1]>> \o SubFrom(s, i + 1)

\* to_link: convert urls to links
to_link(text) == SubFrom(text, 0)

\* to_text: strip, '\n' written out to a line break, '[' escaped, urls linked
to_text(text) ==
    to_link(Replace(Replace(Strip(text), <<BS, "n">>, <<NL>>), <<"[">>, <<BS, "[">>))

-----------------------------------------------------------------------------
(* Participant styles *)

SENDER1 == <<"s", "e", "n", "d", "e", "r", "1">>

\* to_css_class: the class of the name in css_name_dict, else 'sender1'
to_css_class(name) ==
    IF name \in DOMAIN css_name_dict THEN css_name_dict[name] ELSE SENDER1

\* to_name: the name in a span of its class, followed by a dash
to_name(name) ==
    <<"<", "s", "p", "a", "n", " ", "c", "l", "a", "s", "s", "=">> \o to_css_class(name) \o <<">">> \o name
      \o <<"<", "/", "s", "p", "a", "n", ">", " ", "<", "s", "p", "a", "n",
      " ", "c", "l", "a", "s", "s", "=", "n", "a", "m", "e", "d", "a",
      "s", "h", ">", "&", "n", "d", "a", "s", "h", ";", "<", "/", "s",
      "p", "a", "n", ">", " ">>

\* an assignment that replaces the dictionary by the one item
DictSet_replace(dict, key, value) == [k \in {key} |-> value]

\* css_name_dict[key] = value
DictSet(dict, key, value) ==
    [k \in DOMAIN dict \cup {key} |-> IF k = key THEN value ELSE dict[k]]

\* the loop of create_css_participant_styles over the 'name:class' items:
\* the dictionary it leaves and the ValueError of an item that does not
\* unpack into key and value, if any
RECURSIVE StyleLoop(_, _)
StyleLoop(items, dict) ==
    IF items = <<>> THEN [dict |-> dict, exc |-> None]
    ELSE LET kv == Split(Head(items), ":")
         IN  IF Len(kv) # 2 THEN [dict |-> dict, exc |-> ValueError]
             ELSE StyleLoop(Tail(items), DictSet(dict, kv[1], kv[2]))

\* create_css_participant_styles(args)
create_css_participant_styles(a) ==
    IF a.css_participants \in {None, <<>>}
    THEN [dict |-> css_name_dict, exc |-> None]
    ELSE StyleLoop(Split(a.css_participants, ","), css_name_dict)

-----------------------------------------------------------------------------
(* to_heading and split_line *)

UNKNOWN == <<"U", "n", "k", "n", "o", "w", "n">>

\* "**Error reading line**: '{}'".format(line)
ErrorText(line) == <<"*", "*", "E", "r", "r", "o", "r", " ", "r", "e", "a", "d", "i",
      "n", "g", " ", "l", "i", "n", "e", "*", "*", ":", " ", "'">> \o line \o <<"'">>

\* split_line with the line's own first field as the time of the fallback
split_line_own_time(line) ==
    LET fields == Split(line, TAB)
    IN  IF Len(fields) = 3
        THEN [rec |-> fields, diag |-> <<>>]
        ELSE [rec |-> <<fields[1], UNKNOWN, ErrorText(line)>>, diag |-> <<line>>]

\* split_line(line): the list [time, name, text] it returns and what it
\* writes to sys.stderr
split_line(line) ==
    LET fields == Split(line, TAB)
    IN  IF Len(fields) = 3
        THEN [rec |-> fields, diag |-> <<>>]
        ELSE [rec |-> <<last_time, UNKNOWN, ErrorText(line)>>, diag |-> <<line>>]

\* the three comparisons of to_heading with the globals

\* the year taken from the first record only
YearChanged_first_only(y) == last_year = None

YearChanged(y) == last_year # y

MonthChanged(m) == last_mnth # m

\* the comparison of the date left out: a heading for every record
DateChanged_always(d) == TRUE

\* the comparison of the day of the month alone
DateChanged_day_number(d) == Slice(last_date, 4, 6) # Slice(d, 4, 6)

DateChanged(d) == last_date # d

\* to_heading(time): the heading it returns (ret, or the exception it
\* raises) and the values it leaves in the four globals
to_heading(time) ==
    LET y == to_year_only(time)
    IN  IF IsExc(y)
        THEN [ret |-> y, last_time |-> time, last_year |-> last_year,
              last_mnth |-> last_mnth, last_date |-> last_date]
        ELSE
        LET year1 == IF YearChanged(y) THEN y ELSE last_year
            m == to_month_only(time)
        IN  IF IsExc(m)
            THEN [ret |-> m, last_time |-> time, last_year |-> year1,
                  last_mnth |-> last_mnth, last_date |-> last_date]
            ELSE
            LET mnth1 == IF MonthChanged(m) THEN m ELSE last_mnth
                mnth == IF MonthChanged(m)
                        THEN <<"#", "#", " ">> \o year1 \o <<" ", "-", " ">> \o mnth1 \o <<NL, NL>>
                        ELSE <<>>
                d == to_date_only(time)
            IN  IF DateChanged(d)
                THEN [ret |-> mnth \o <<"#", "#", "#", " ">> \o d \o <<NL, NL>>,
                      last_time |-> time, last_year |-> year1,
                      last_mnth |-> mnth1, last_date |-> d]
                ELSE [ret |-> <<>>,
                      last_time |-> time, last_year |-> year1,
                      last_mnth |-> mnth1, last_date |-> last_date]

-----------------------------------------------------------------------------
(* Inputs: the message files and command lines the runs are checked on *)

\* a timestamp as the archive writes it
MkTime(y, m, d, h) ==
    Decimal(y) \o <<"-">> \o Pad2(m) \o <<"-">> \o Pad2(d) \o <<"T">>
      \o Pad2(h) \o <<":", "2", "7", ":", "0", "7", ".", "4", "7", "2", "Z">>

T_May08 == MkTime(2019, 5, 8, 8)
T_May09 == MkTime(2019, 5, 9, 9)
T_Jun08 == MkTime(2019, 6, 8, 8)
T_May08_2020 == MkTime(2020, 5, 8, 8)
T_Jun31 == MkTime(2019, 6, 31, 8)       \* no such day: to_date raises

ALICE == <<"a", "l", "i", "c", "e">>
BOB == <<"b", "o", "b">>

\* the fields joined by tabs, and the line end
RECURSIVE JoinTab(_)
JoinTab(fields) ==
    IF Len(fields) = 1 THEN Head(fields)
    ELSE Head(fields) \o <<TAB>> \o JoinTab(Tail(fields))

MkLine(fields) == JoinTab(fields) \o <<NL>>

WellFormedLines ==
    { MkLine(<<T_May08, ALICE, <<"h", "i">>>>),
      MkLine(<<T_May09, BOB, <<" ", "[", "x", "]">>>>),
      MkLine(<<T_Jun08, ALICE, <<"h", "i">>>>),
      MkLine(<<T_May08_2020, ALICE, <<"h", "i">>>>),
      MkLine(<<T_Jun31, ALICE, <<"h", "i">>>>) }

MalformedLines ==
    { MkLine(<<<<"o", "o", "p", "s">>>>),
      MkLine(<<T_Jun08, BOB, <<"a">>, <<"b">>>>) }

Lines == WellFormedLines \cup MalformedLines

Files == UNION {[1..n -> Lines] : n \in 0..MaxLines}

EPUB == <<"e", "p", "u", "b">>
SENDER2 == <<"s", "e", "n", "d", "e", "r", "2">>
ALICE_SENDER2 ==
    <<"a", "l", "i", "c", "e", ":", "s", "e", "n", "d", "e", "r", "2">>

SENDER3 == <<"s", "e", "n", "d", "e", "r", "3">>
ALICE_BOB ==
    <<"a", "l", "i", "c", "e", ":", "s", "e", "n", "d", "e", "r", "2",
      ",", "b", "o", "b", ":", "s", "e", "n", "d", "e", "r", "3">>

MARKDOWN == <<"m", "a", "r", "k", "d", "o", "w", "n">>

\* the namespace argparse returns where no option is given: every option
\* None, store_true options False, --md-format 'markdown'
DefaultArgs ==
    [ dry_run |-> FALSE, dst_folder |-> None, title |-> None, author |-> None,
      date |-> None, publisher |-> None, rights |-> None, cover_image |-> None,
      css |-> None, css_participants |-> None, epub_template |-> None,
      md_format |-> MARKDOWN ]

\* no --dst-folder; no --css-participants; one participant; two
\* participants; an item without colon
Args ==
    { DefaultArgs,
      [DefaultArgs EXCEPT !.dst_folder = EPUB],
      [DefaultArgs EXCEPT !.dst_folder = EPUB, !.css_participants = ALICE_SENDER2],
      [DefaultArgs EXCEPT !.dst_folder = EPUB, !.css_participants = ALICE_BOB],
      [DefaultArgs EXCEPT !.dst_folder = EPUB, !.css_participants = ALICE] }

-----------------------------------------------------------------------------
(* The run of the script *)

Init ==
    /\ args \in Args
    /\ f \in Files
    /\ pos = 0
    /\ out = <<>>
    /\ md = "absent"
    /\ stderr = <<>>
    /\ last_time = None
    /\ last_year = None
    /\ last_mnth = None
    /\ last_date = None
    /\ css_name_dict = <<>>
    /\ pc = "main"
    /\ exc = None
    /\ pandoc = <<>>
    /\ exit_status = <<>>
    /\ text_in = <<>>
    /\ text_once = <<>>
    /\ text_twice = <<>>

textvars == <<text_in, text_once, text_twice>>
globals == <<last_time, last_year, last_mnth, last_date>>

\* main: without --dst-folder it prints the hint and ends; else it calls
\* convert_dm_text_epub
Main ==
    /\ pc = "main"
    /\ IF args.dst_folder \in {None, <<>>}
       THEN pc' = "returned"
       ELSE pc' = "styles"
    /\ UNCHANGED <<args, f, pos, out, md, stderr, globals, css_name_dict, exc,
                   pandoc, exit_status, textvars>>

\* convert_dm_text_epub: create_css_participant_styles(args)
CreateStyles ==
    /\ pc = "styles"
    /\ LET r == create_css_participant_styles(args)
       IN  /\ css_name_dict' = r.dict
           /\ exc' = r.exc
           /\ pc' = IF r.exc = None THEN "open" ELSE "raised"
    /\ UNCHANGED <<args, f, pos, out, md, stderr, globals, pandoc,
                   exit_status, textvars>>

\* convert_dm_text_markdown: the two files are opened, the markdown file
\* for writing
OpenFiles ==
    /\ pc = "open"
    /\ md' = "open"
    /\ out' = <<>>
    /\ pc' = "loop"
    /\ UNCHANGED <<args, f, pos, stderr, globals, css_name_dict, exc, pandoc,
                   exit_status, textvars>>

\* the arguments of the format of one block, evaluated in order; the first
\* exception raised ends the evaluation
Block(h, name, text, time) ==
    [heading |-> h, name |-> to_name(name), text |-> to_text(text),
     date |-> to_small_date(time)]

\* a write that drops a block equal to the one before it
Write_dedup(o, block) ==
    IF o # <<>> /\ o[Len(o)] = block THEN o ELSE Append(o, block)

\* out.write(block)
Write(o, block) == Append(o, block)

\* one turn of the loop over the lines: split_line, to_heading and the
\* other conversions, and the write of the block.  An exception leaves the
\* with statements, which close the files, and the run.
ProcessLine ==
    /\ pc = "loop"
    /\ pos < Len(f)
    /\ LET line == f[pos + 1]
           sl == split_line(line)
           time == sl.rec[1]
           h == to_heading(time)
       IN  /\ pos' = pos + 1
           /\ stderr' = stderr \o sl.diag
           /\ last_time' = h.last_time
           /\ last_year' = h.last_year
           /\ last_mnth' = h.last_mnth
           /\ last_date' = h.last_date
           /\ IF IsExc(h.ret)
              THEN /\ exc' = h.ret
                   /\ md' = "closed"
                   /\ pc' = "raised"
                   /\ out' = out
              ELSE /\ out' = Write(out, Block(h.ret, sl.rec[2], sl.rec[3], time))
                   /\ UNCHANGED <<exc, md, pc>>
    /\ UNCHANGED <<args, f, css_name_dict, pandoc, exit_status, textvars>>

\* the loop ends and pandoc is called with the markdown file still open
CloseFiles_left_open ==
    /\ pc = "loop"
    /\ pos = Len(f)
    /\ pc' = "pandoc"
    /\ UNCHANGED <<args, f, pos, out, md, stderr, globals, css_name_dict, exc,
                   pandoc, exit_status, textvars>>

\* the loop ends at the end of the file: the files are closed
CloseFiles ==
    /\ pc = "loop"
    /\ pos = Len(f)
    /\ md' = "closed"
    /\ pc' = "pandoc"
    /\ UNCHANGED <<args, f, pos, out, stderr, globals, css_name_dict, exc,
                   pandoc, exit_status, textvars>>

\* '{}'.format(v)
Str(v) == IF v = None THEN <<"N", "o", "n", "e">> ELSE v

\* an optional part of the command: '' where the option is None or ''
Optional(name, v) ==
    IF v \in {None, <<>>} THEN <<>> ELSE <<[opt |-> name, val |-> v]>>

\* an argument that the template always holds
Always(name, v) == <<[opt |-> name, val |-> Str(v)]>>

\* to_outname(folder, path, ext) for the message file messages.txt
to_outname(folder, ext) == folder \o <<"/">> \o <<"m", "e", "s", "s", "a", "g", "e", "s">> \o ext

\* shlex.split(pandoc_cmd): the arguments of pandoc, each an option and its
\* value, in the order of pandoc_tpl
pandoc_cmd_args(a) ==
    Always("pandoc", <<>>) \o Always("-tmarkdown-smart", <<>>)
      \o Always("--embed-resources", <<>>) \o Always("--standalone", <<>>)
      \o Always("--toc-depth", <<"3">>) \o Always("--split-level", <<"1">>)
      \o Always("--metadata=author", a.author)
      \o Always("--metadata=title", a.title)
      \o Optional("--metadata=date", a.date)
      \o Optional("--metadata=publisher", a.publisher)
      \o Optional("--metadata=rights", a.rights)
      \o Optional("--epub-cover-image", a.cover_image)
      \o Always("--css", a.css)
      \o Always("--from", a.md_format)
      \o Always("--to", EPUB)
      \o Optional("--template", a.epub_template)
      \o Always("-o", to_outname(a.dst_folder, <<".", "e", "p", "u", "b">>))
      \o Always("input", to_outname(a.dst_folder, <<".", "m", "d">>))

\* convert_dm_markdown_epub: subprocess.Popen(pandoc_cmd_args) starts
\* pandoc, or raises FileNotFoundError where there is no pandoc
StartPandoc ==
    /\ pc = "pandoc"
    /\ \E found \in BOOLEAN :
          IF found
          THEN /\ pandoc' = Append(pandoc, [md |-> md, blocks |-> Len(out),
                                            cmd |-> pandoc_cmd_args(args),
                                            status |-> <<>>])
               /\ pc' = "wait"
               /\ exc' = exc
          ELSE /\ exc' = FileNotFoundError
               /\ pc' = "raised"
               /\ pandoc' = pandoc
    /\ UNCHANGED <<args, f, pos, out, md, stderr, globals, css_name_dict,
                   exit_status, textvars>>

\* .wait(): pandoc ends with some exit status, which wait returns and
\* convert_dm_markdown_epub drops
PandocExits ==
    /\ pc = "wait"
    /\ \E status \in {0, 1} :
          pandoc' = [pandoc EXCEPT ![Len(pandoc)].status = <<status>>]
    /\ pc' = "returned"
    /\ UNCHANGED <<args, f, pos, out, md, stderr, globals, css_name_dict, exc,
                   exit_status, textvars>>

\* main returns: the script exits with status 0
Exit ==
    /\ pc = "returned"
    /\ exit_status' = <<0>>
    /\ pc' = "exit"
    /\ UNCHANGED <<args, f, pos, out, md, stderr, globals, css_name_dict, exc,
                   pandoc, textvars>>

\* an exception nobody catches: traceback, the script exits with status 1
Abort ==
    /\ pc = "raised"
    /\ exit_status' = <<1>>
    /\ pc' = "exit"
    /\ UNCHANGED <<args, f, pos, out, md, stderr, globals, css_name_dict, exc,
                   pandoc, textvars>>

Next ==
    \/ Main
    \/ CreateStyles
    \/ OpenFiles
    \/ ProcessLine
    \/ CloseFiles
    \/ StartPandoc
    \/ PandocExits
    \/ Exit
    \/ Abort

Spec == Init /\ [][Next]_vars

-----------------------------------------------------------------------------
(* A process that imports the script as a module and calls
   convert_dm_text_epub again after it has returned, on another message
   file: the module globals are those the earlier call left *)

RunFiles == UNION {[1..n -> Lines] : n \in 0..MaxRunLines}

InitRuns ==
    /\ args = [DefaultArgs EXCEPT !.dst_folder = EPUB]
    /\ f \in RunFiles
    /\ pos = 0
    /\ out = <<>>
    /\ md = "absent"
    /\ stderr = <<>>
    /\ last_time = None
    /\ last_year = None
    /\ last_mnth = None
    /\ last_date = None
    /\ css_name_dict = <<>>
    /\ pc = "main"
    /\ exc = None
    /\ pandoc = <<>>
    /\ exit_status = <<>>
    /\ text_in = <<>>
    /\ text_once = <<>>
    /\ text_twice = <<>>

\* convert_dm_text_epub(args, another file, ...): its markdown file is not
\* there yet; nothing resets the module globals
CallAgain ==
    /\ pc = "returned"
    /\ args.dst_folder = EPUB
    /\ Len(pandoc) < MaxRuns
    /\ f' \in RunFiles
    /\ pos' = 0
    /\ out' = <<>>
    /\ md' = "absent"
    /\ pc' = "styles"
    /\ UNCHANGED <<args, stderr, globals, css_name_dict, exc, pandoc,
                   exit_status, textvars>>

NextRuns == Next \/ CallAgain

SpecRuns == InitRuns /\ [][NextRuns]_vars

-----------------------------------------------------------------------------
(* The run of the script under every choice of its options *)

X == <<"x">>

\* --dst-folder given; --dry-run or not; each option of the e-book given (as
\* 'x') or not
OptionArgs ==
    { [DefaultArgs EXCEPT !.dst_folder = EPUB, !.dry_run = dr, !.title = ti,
                          !.author = au, !.date = da, !.publisher = pu,
                          !.rights = ri, !.cover_image = co, !.css = cs,
                          !.epub_template = te] :
        dr \in BOOLEAN, ti \in {None, X}, au \in {None, X}, da \in {None, X},
        pu \in {None, X}, ri \in {None, X}, co \in {None, X}, cs \in {None, X},
        te \in {None, X} }

OptionFiles == {<<>>, <<MkLine(<<T_May08, ALICE, <<"h", "i">>>>)>>}

InitOptions ==
    /\ args \in OptionArgs
    /\ f \in OptionFiles
    /\ pos = 0
    /\ out = <<>>
    /\ md = "absent"
    /\ stderr = <<>>
    /\ last_time = None
    /\ last_year = None
    /\ last_mnth = None
    /\ last_date = None
    /\ css_name_dict = <<>>
    /\ pc = "main"
    /\ exc = None
    /\ pandoc = <<>>
    /\ exit_status = <<>>
    /\ text_in = <<>>
    /\ text_once = <<>>
    /\ text_twice = <<>>

SpecOptions == InitOptions /\ [][Next]_vars

-----------------------------------------------------------------------------
(* to_text on its own: a message text, sanitized once and then again *)

Pieces ==
    { <<"h", "t", "t", "p", ":", "/", "/", "a">>, <<".">>, <<"b", "c">>, <<SP>>, <<"[">>, <<BS, "n">>, <<"x">> }

RECURSIVE Concat(_)
Concat(ss) == IF ss = <<>> THEN <<>> ELSE Head(ss) \o Concat(Tail(ss))

Texts == {Concat(ps) : ps \in UNION {[1..n -> Pieces] : n \in 0..MaxPieces}}

InitText ==
    /\ text_in \in Texts
    /\ text_once = None
    /\ text_twice = None
    /\ pc = "text"
    /\ args = DefaultArgs
    /\ f = <<>>
    /\ pos = 0
    /\ out = <<>>
    /\ md = "absent"
    /\ stderr = <<>>
    /\ last_time = None
    /\ last_year = None
    /\ last_mnth = None
    /\ last_date = None
    /\ css_name_dict = <<>>
    /\ exc = None
    /\ pandoc = <<>>
    /\ exit_status = <<>>

runvars == <<args, f, pos, out, md, stderr, globals, css_name_dict, exc,
             pandoc, exit_status>>

\* to_text(text)
Sanitize ==
    /\ pc = "text"
    /\ text_once' = to_text(text_in)
    /\ pc' = "once"
    /\ UNCHANGED <<text_in, text_twice, runvars>>

\* to_text of the sanitized text
SanitizeAgain ==
    /\ pc = "once"
    /\ text_twice' = to_text(text_once)
    /\ pc' = "twice"
    /\ UNCHANGED <<text_in, text_once, runvars>>

NextText == Sanitize \/ SanitizeAgain

SpecText == InitText /\ [][NextText]_vars

-----------------------------------------------------------------------------
(* What the properties below say of the input, read off the file alone *)

Fields(k) == Split(f[k], TAB)

WellFormed(k) == Len(Fields(k)) = 3

HasWellFormedBefore(k) == \E j \in 1..(k - 1) : WellFormed(j)

\* the timestamp of the most recent well-formed line among the first k
RECURSIVE RecTime(_)
RecTime(k) ==
    IF k = 0 THEN None
    ELSE IF WellFormed(k) THEN Fields(k)[1] ELSE RecTime(k - 1)

\* the record of line k: its fields, or the fallback record
Rec(k) ==
    IF WellFormed(k) THEN Fields(k)
    ELSE <<RecTime(k - 1), UNKNOWN, ErrorText(f[k])>>

\* the malformed lines among the first n, in order
RECURSIVE Diags(_)
Diags(n) ==
    IF n = 0 THEN <<>>
    ELSE Diags(n - 1) \o (IF WellFormed(n) THEN <<>> ELSE <<f[n]>>)

Contains(s, p) == \E i \in 0..(Len(s) - Len(p)) : OccursAt(s, p, i)

DateKey(k) == to_date_only(RecTime(k))

YearMonth(k) == <<to_year_only(RecTime(k)), to_month_only(RecTime(k))>>

\* convert_dm_text_epub was called in this run
Converting == args.dst_folder = EPUB

-----------------------------------------------------------------------------
(* The claims *)

\* C1: within one conversion run, the heading of a record is non-empty
\* exactly when the record is the first one or its date key (day of week,
\* day, month, year) differs from the key of the record right before it;
\* the input is not sorted, so a date that comes again after another date
\* gets its heading again.
C1_HeadingExactlyOnDateChange ==
    \A k \in 1..Len(out) :
        (out[k].heading # <<>>) <=> (k = 1 \/ DateKey(k) # DateKey(k - 1))

\* C1 witness: three blocks written, the third of the date of the first after
\* another date in between, with its heading again.
C1_Witness ==
    /\ Len(out) = 3
    /\ DateKey(3) = DateKey(1)
    /\ DateKey(2) # DateKey(1)
    /\ out[3].heading # <<>>

\* C2 (the claim, which the code violates): a file whose well-formed lines
\* all carry a timestamp that parses is converted without exception and with
\* one block per line, wherever its malformed lines are.
C2_NoAbortOnMalformedLines ==
    (\A k \in 1..Len(f) : WellFormed(k) => ~IsExc(to_date(Fields(k)[1])))
        => /\ exc \notin {TypeError, ValueError} \/ md = "absent"
           /\ md = "closed" => Len(out) = Len(f)

\* C3: for a malformed line that comes after a well-formed one, split_line
\* returns the timestamp of the most recent well-formed line before it, the
\* sender 'Unknown' and a text that contains the raw line; the block written
\* for it carries that sender and that timestamp.
C3_FallbackRecord ==
    /\ (pc = "loop" /\ pos < Len(f) /\ ~WellFormed(pos + 1)
          /\ HasWellFormedBefore(pos + 1))
        => LET r == split_line(f[pos + 1]).rec
           IN  /\ r[1] = RecTime(pos)
               /\ r[2] = UNKNOWN
               /\ Contains(r[3], f[pos + 1])
    /\ \A k \in 1..Len(out) :
          (~WellFormed(k) /\ HasWellFormedBefore(k))
            => /\ out[k].name = to_name(UNKNOWN)
               /\ out[k].date = to_small_date(RecTime(k))

\* C3 witness: a well-formed line followed by two malformed ones, the last
\* with four fields, and all three blocks written.
C3_Witness ==
    /\ Len(out) = 3
    /\ WellFormed(1) /\ ~WellFormed(2) /\ ~WellFormed(3)
    /\ Len(Fields(3)) = 4
    /\ out[3].date = to_small_date(Fields(1)[1])

\* C4 (the claim, which the code violates): the first record, and every
\* record whose (year, month) differs from that of the record before it,
\* has a heading that starts with the month line '## {year} - {month}' of
\* its own year and month.
C4_MonthKeyIsYearAndMonth ==
    \A k \in 1..Len(out) :
        (k = 1 \/ (YearMonth(k) # YearMonth(k - 1) /\ DateKey(k) # DateKey(k - 1)))
          => OccursAt(out[k].heading,
                      <<"#", "#", " ">> \o YearMonth(k)[1] \o <<" ", "-", " ">> \o YearMonth(k)[2]
                        \o <<NL, NL>>, 0)

\* C5: the document is one block per line taken, in input order: block k
\* is built from line k (its sender, text, date and, where it has one, the
\* heading of its date); nothing is dropped, merged or reordered.
C5_OneBlockPerLineInOrder ==
    /\ Len(out) <= pos
    /\ pc = "loop" => Len(out) = pos
    /\ (md = "closed" /\ exc = None) => Len(out) = Len(f)
    /\ \A k \in 1..Len(out) :
          /\ out[k].name = to_name(Rec(k)[2])
          /\ out[k].text = to_text(Rec(k)[3])
          /\ out[k].date = to_small_date(Rec(k)[1])
          /\ out[k].heading # <<>> => Contains(out[k].heading, DateKey(k))

\* C5 witness: three lines, the last two identical, and their two identical
\* blocks both in the document.
C5_Witness ==
    /\ Len(out) = 3
    /\ f[2] = f[3]
    /\ out[2] = out[3]

\* what C6 says of the order of the steps: pandoc is started at most once,
\* with the markdown file closed and the block of every line in it; the
\* style map is built before the first line is taken; the conversion has
\* returned only when pandoc has exited.
C6_Order ==
    /\ Len(pandoc) <= 1
    /\ \A i \in 1..Len(pandoc) :
          pandoc[i].md = "closed" /\ pandoc[i].blocks = Len(f)
                                  /\ Len(out) = Len(f)
    /\ (pos >= 1 /\ args.css_participants = ALICE_SENDER2)
          => (ALICE \in DOMAIN css_name_dict /\ css_name_dict[ALICE] = SENDER2)
    /\ (Converting /\ pc = "returned")
          => (Len(pandoc) = 1 /\ pandoc[1].status # <<>>)

\* C6 (as claimed): in every run of convert_dm_text_epub pandoc is invoked
\* exactly once, in the order of C6_Order.
C6_OnceInEveryRun ==
    /\ C6_Order
    /\ (Converting /\ pc = "exit") => Len(pandoc) = 1

\* C6 (amended): pandoc is invoked exactly once in every run of
\* convert_dm_text_epub that returns and not at all in a run that an
\* exception ends, in the order of C6_Order.
C6_OnceInEveryRunThatReturns ==
    /\ C6_Order
    /\ (Converting /\ pc = "exit" /\ exc = None) => Len(pandoc) = 1
    /\ exc # None => pandoc = <<>>

\* C6 witness: a run over three lines has returned, with pandoc started once
\* and exited.
C6_Witness ==
    /\ pc = "returned"
    /\ Len(f) = 3
    /\ Len(pandoc) = 1
    /\ pandoc[1].status # <<>>
    /\ pandoc[1].blocks = 3

\* C7 (the claim, which the code violates): when pandoc ends with a
\* non-zero exit status, the script ends with that status.
C7_ExitStatusPropagates ==
    (pc = "exit" /\ Len(pandoc) = 1 /\ pandoc[1].status # <<0>>)
        => exit_status = pandoc[1].status

\* C8 (the claim, which the code violates): after any prefix of the file,
\* sys.stderr holds exactly the malformed lines of the prefix, one
\* diagnostic each, in order, and every malformed line taken has its block:
\* the loop went on with the next line.
C8_OneDiagnosticAndGoOn ==
    /\ stderr = Diags(pos)
    /\ \A k \in 1..pos : ~WellFormed(k) => Len(out) >= k

\* C9: a well-formed line whose timestamp does not parse ends the run with
\* ValueError at that line: no block for it or for a later line, no further
\* line taken, pandoc not started, exit status 1.
C9_ParseFailureIsFatal ==
    \A k \in 1..pos :
        (WellFormed(k) /\ Fields(k)[1] = T_Jun31)
          => /\ pos = k
             /\ Len(out) = k - 1
             /\ pandoc = <<>>
             /\ pc \in {"raised", "exit"}
             /\ exc = ValueError
             /\ md = "closed"
             /\ pc = "exit" => exit_status = <<1>>

\* C9 witness: the second of three lines has the timestamp that does not
\* parse; the script has exited with one block written.
C9_Witness ==
    /\ pc = "exit"
    /\ Len(f) = 3
    /\ pos = 2
    /\ WellFormed(2) /\ Fields(2)[1] = T_Jun31
    /\ Len(out) = 1
    /\ exit_status = <<1>>

\* C10 (the claim, which the code violates): to_text applied to its own
\* result gives that result again.
C10_ToTextIdempotent == pc = "twice" => text_twice = text_once

\* the options of the e-book: the field of args and the argument of pandoc
MetaOptions ==
    { <<"title", "--metadata=title">>, <<"author", "--metadata=author">>,
      <<"date", "--metadata=date">>, <<"publisher", "--metadata=publisher">>,
      <<"rights", "--metadata=rights">>, <<"cover_image", "--epub-cover-image">>,
      <<"css", "--css">>, <<"epub_template", "--template">> }

InCmd(cmd, name) == \E j \in 1..Len(cmd) : cmd[j].opt = name

\* C11 (the claim, which the code violates): with --dry-run no markdown
\* file is written and pandoc is not started.
C11_DryRunDoesNothing ==
    args.dry_run => (md = "absent" /\ out = <<>> /\ pandoc = <<>>)

\* C12 (the claim, which the code violates): the command line of pandoc
\* holds an argument for title, author, date, publisher, rights, cover
\* image, css and template exactly when the option is set.
C12_OptionInCommandIffSet ==
    \A i \in 1..Len(pandoc) : \A o \in MetaOptions :
        InCmd(pandoc[i].cmd, o[2]) <=> (args[o[1]] # None)

\* the name:styleclass pairs of --css-participants, read off the option
Styles ==
    IF args.css_participants = ALICE_SENDER2 THEN {<<ALICE, SENDER2>>}
    ELSE IF args.css_participants = ALICE_BOB
         THEN {<<ALICE, SENDER2>>, <<BOB, SENDER3>>}
         ELSE {}

\* the class of a sender by these pairs, 'sender1' for a sender without one
StyleOf(name) ==
    IF \E p \in Styles : p[1] = name
    THEN (CHOOSE p \in Styles : p[1] = name)[2]
    ELSE SENDER1

\* C13: once the files are open the style map holds exactly the pairs of
\* --css-participants and stays so while the records are processed;
\* to_css_class gives the mapped class of a sender in the map and 'sender1'
\* for any other sender, 'Unknown' among them, and every block carries the
\* class of its sender.
C13_StyleMapFixedAndDefault ==
    /\ md # "absent" =>
          /\ DOMAIN css_name_dict = {p[1] : p \in Styles}
          /\ \A p \in Styles : css_name_dict[p[1]] = p[2]
          /\ \A name \in {ALICE, BOB, UNKNOWN} : to_css_class(name) = StyleOf(name)
    /\ \A k \in 1..Len(out) :
          OccursAt(out[k].name,
                   <<"<", "s", "p", "a", "n", " ", "c", "l", "a", "s", "s", "=">> \o StyleOf(Rec(k)[2]) \o <<">">> \o Rec(k)[2], 0)

\* C13 witness: with alice and bob in the map, the blocks of alice, of bob
\* and of a malformed line are written, with sender2, sender3 and sender1.
C13_Witness ==
    /\ args.css_participants = ALICE_BOB
    /\ Len(out) = 3
    /\ {Rec(1)[2], Rec(2)[2], Rec(3)[2]} = {ALICE, BOB, UNKNOWN}
    /\ \E k \in 1..3 : Rec(k)[2] = UNKNOWN /\ to_css_class(Rec(k)[2]) = SENDER1

\* C14 (the claim, which the code violates): every call of
\* convert_dm_text_epub starts with the four globals empty, so that the
\* first block of its document has the month and the date heading and no
\* fallback block carries a timestamp from an earlier call.
C14_RunsDoNotInterfere ==
    /\ (pc \in {"styles", "open"} \/ (pc = "loop" /\ pos = 0))
          => /\ last_time = None /\ last_year = None
             /\ last_mnth = None /\ last_date = None
    /\ Len(out) >= 1 => OccursAt(out[1].heading, <<"#", "#", " ">>, 0)
    /\ \A k \in 1..Len(out) : ~WellFormed(k) => HasWellFormedBefore(k)

\* year, month and date of the timestamps of the input, as the archive's
\* calendar has them
KeysOf(t) ==
    CASE t = T_May08 ->
           [year |-> <<"2", "0", "1", "9">>, month |-> <<"M", "a", "y">>, date |-> <<"W", "e", "d", " ", "0", "8", " ", "M", "a", "y", " ", "2", "0",
      "1", "9">>]
      [] t = T_May09 ->
           [year |-> <<"2", "0", "1", "9">>, month |-> <<"M", "a", "y">>, date |-> <<"T", "h", "u", " ", "0", "9", " ", "M", "a", "y", " ", "2", "0",
      "1", "9">>]
      [] t = T_Jun08 ->
           [year |-> <<"2", "0", "1", "9">>, month |-> <<"J", "u", "n">>, date |-> <<"S", "a", "t", " ", "0", "8", " ", "J", "u", "n", " ", "2", "0",
      "1", "9">>]
      [] t = T_May08_2020 ->
           [year |-> <<"2", "0", "2", "0">>, month |-> <<"M", "a", "y">>, date |-> <<"F", "r", "i", " ", "0", "8", " ", "M", "a", "y", " ", "2", "0",
      "2", "0">>]

MonthLine(t) ==
    <<"#", "#", " ">> \o KeysOf(t).year \o <<" ", "-", " ">> \o KeysOf(t).month \o <<NL, NL>>

\* C15: when to_heading has returned for a record with timestamp t, the
\* four globals are t and the year, month and date of t, and they stay so
\* until the next record (no other step writes them; before the first
\* record they are None); a month heading prints the year of its own record.
C15_StateEqualsKeysOfLastRecord ==
    /\ pos = 0 =>
          /\ last_time = None /\ last_year = None
          /\ last_mnth = None /\ last_date = None
    /\ (pos >= 1 /\ Len(out) = pos) =>
          /\ last_time = RecTime(pos)
          /\ last_year = KeysOf(RecTime(pos)).year
          /\ last_mnth = KeysOf(RecTime(pos)).month
          /\ last_date = KeysOf(RecTime(pos)).date
    /\ \A k \in 1..Len(out) :
          OccursAt(out[k].heading, <<"#", "#", " ">>, 0)
            => OccursAt(out[k].heading, MonthLine(RecTime(k)), 0)

\* C15 witness: a record of June 2019, then one of May 2020, whose heading
\* is that of 2020, and the globals hold the keys of the second.
C15_Witness ==
    /\ Len(out) = 2 /\ pos = 2
    /\ RecTime(1) = T_Jun08 /\ RecTime(2) = T_May08_2020
    /\ OccursAt(out[2].heading, MonthLine(T_May08_2020), 0)
    /\ last_year = KeysOf(T_May08_2020).year
    /\ last_time = T_May08_2020

\* C16: no step of to_heading updates the month key and returns an empty
\* heading: where the next call changes last_mnth it changes last_date too
\* and returns the month line; a record of another month than the record
\* before it has the month line in its block; last_mnth is always the
\* month of last_date.
C16_MonthHeadingNeverDropped ==
    /\ (pc = "loop" /\ pos < Len(f)) =>
          LET h == to_heading(split_line(f[pos + 1]).rec[1])
          IN  (~IsExc(h.ret) /\ h.last_mnth # last_mnth)
                => /\ h.last_date # last_date
                   /\ OccursAt(h.ret, <<"#", "#", " ">>, 0)
    /\ \A k \in 2..Len(out) :
          KeysOf(RecTime(k)).month # KeysOf(RecTime(k - 1)).month
            => OccursAt(out[k].heading, MonthLine(RecTime(k)), 0)
    /\ last_date # None => last_mnth = Slice(last_date, 7, 10)

\* C16 witness: a record of May and then a record of June, on the same day
\* of the month, with the month line in the block of the second.
C16_Witness ==
    /\ Len(out) = 2
    /\ RecTime(1) = T_May08 /\ RecTime(2) = T_Jun08
    /\ last_mnth = KeysOf(T_Jun08).month
    /\ OccursAt(out[2].heading, MonthLine(T_Jun08), 0)

=============================================================================
